---------------------------- MODULE Spec2Model ----------------------------
(***************************************************************************)
(* Model of scripts/build-tokens.js: the script that renders the token     *)
(* list (content/tokens/list.md) from the synthetix registry.              *)
(*                                                                         *)
(*  - SpecRound : the pure function doRounding applied to bounded inputs.  *)
(*  - Spec      : the build itself, one step per statement of the script.  *)
(***************************************************************************)
EXTENDS Integers, Sequences, FiniteSets, TLC

VARIABLES
    entryPoint,   \* SpecRound: the entry point as written in the registry
    limit,        \* SpecRound: the limit as written in the registry
    result,       \* SpecRound: <<the string doRounding returned>>, or <<>>
    registry,     \* what the synthetix package holds: tokens, synths, oracle user
    engine,       \* the Array.prototype.sort of the JavaScript engine in use
    pc,           \* the statement the script is at
    runs,         \* the number of the current run of the script
    synths,       \* const synths  (line 9)
    tokens,       \* const tokens  (line 58)
    content,      \* const content (line 124): <<the document>>, or <<>>
    file,         \* content/tokens/list.md on disk
    previous,     \* what the file held when the current run began
    writes,       \* the writes of the current run to the file
    thrown        \* the call whose exception ended the current run

roundVars == <<entryPoint, limit, result>>
buildVars == <<registry, engine, pc, runs, synths, tokens, content, file, previous,
               writes, thrown>>
vars == <<entryPoint, limit, result, registry, engine, pc, runs, synths, tokens,
          content, file, previous, writes, thrown>>

\* An optional value: <<>> when absent (undefined), <<v>> when present.
Absent == <<>>
Some(v) == <<v>>
Has(o) == Len(o) > 0
Get(o) == o[1]

(***************************************************************************)
(* Bounds of the numeric inputs.                                           *)
(***************************************************************************)
MaxEntryMant == 130
MaxLimitMant == 20
MaxScale == 3

(***************************************************************************)
(* Decimal numbers.  A literal [m, s] is the text of a number of the       *)
(* registry: the digits m with the last s of them after the point, so      *)
(* [m |-> 1500, s |-> 1] is the text 150.0.  A JavaScript Number keeps the *)
(* value and not the text: it is held as the literal without trailing      *)
(* fractional zeros, which is also what Number.prototype.toString prints.  *)
(***************************************************************************)
RECURSIVE Pow10(_)
Pow10(n) == IF n <= 0 THEN 1 ELSE 10 * Pow10(n - 1)

RECURSIVE Pow5(_)
Pow5(n) == IF n <= 0 THEN 1 ELSE 5 * Pow5(n - 1)

Abs(x) == IF x < 0 THEN -x ELSE x

MaxOf(a, b) == IF a > b THEN a ELSE b

RECURSIVE StripZeros(_, _)
StripZeros(m, s) ==
    IF s > 0 /\ m % 10 = 0 THEN StripZeros(m \div 10, s - 1)
    ELSE [m |-> m, s |-> s]

\* The Number a literal of the registry is read as.
ParseNumber(lit) == StripZeros(lit.m, lit.s)

\* A Number is held exactly by a binary double iff its denominator is a power of 2.
Dyadic(x) == x.m % Pow5(x.s) = 0

\* The d digits of n, most significant first (n < 10^d).
FracDigits(n, d) == [i \in 1..d |-> (n \div Pow10(d - i)) % 10]

\* A decimal string: sign, integer part and the digits after the point.
DecString(neg, n, d) ==
    [neg |-> neg, int |-> n \div Pow10(d), frac |-> FracDigits(n % Pow10(d), d)]

\* Number.prototype.toString of a Number (plain decimal notation).
NumToString(x) == DecString(x.m < 0, Abs(x.m), x.s)

\* limit.toString().split('.')[1] || ''
FractionOf(str) == str.frac

\* entry * 2 - limit
MirrorOf(entry, lim) ==
    LET S == MaxOf(entry.s, lim.s)
    IN  StripZeros(2 * entry.m * Pow10(S - entry.s) - lim.m * Pow10(S - lim.s), S)

(***************************************************************************)
(* Number.prototype.toFixed(d): the n for which n / 10^d is nearest to x,  *)
(* the larger n of two, "-" in front when x < 0.  x is the double that     *)
(* entry * 2 - limit evaluates to.  When the operands are held exactly the *)
(* double is the exact value; otherwise it lies within rounding error of   *)
(* it, and on a decimal tie either neighbour may be the nearest: roundUp   *)
(* is the side the double fell on.                                         *)
(***************************************************************************)
toFixed(x, d, exact, roundUp) ==
    LET a == Abs(x.m)
        k == Pow10(x.s - d)
        q == a \div k
        r == a % k
        n == IF x.s <= d THEN a * Pow10(d - x.s)
             ELSE IF 2 * r < k THEN q
             ELSE IF 2 * r > k THEN q + 1
             ELSE IF exact \/ roundUp THEN q + 1
             ELSE q
    IN  DecString(x.m < 0, n, d)

\* doRounding with the entry point not doubled.
doRoundingUndoubled(entry, lim, roundUp) ==
    LET num == StripZeros(entry.m * Pow10(MaxOf(entry.s, lim.s) - entry.s)
                            - lim.m * Pow10(MaxOf(entry.s, lim.s) - lim.s),
                          MaxOf(entry.s, lim.s))
        decimals == Len(FractionOf(NumToString(lim)))
    IN  toFixed(num, decimals, Dyadic(entry) /\ Dyadic(lim), roundUp)

\* doRounding with the width taken from the entry point.
doRoundingEntryWidth(entry, lim, roundUp) ==
    LET num == MirrorOf(entry, lim)
        decimals == Len(FractionOf(NumToString(entry)))
    IN  toFixed(num, decimals, Dyadic(entry) /\ Dyadic(lim), roundUp)

doRounding(entry, lim, roundUp) ==
    LET num == MirrorOf(entry, lim)
        decimals == Len(FractionOf(NumToString(lim)))
    IN  toFixed(num, decimals, Dyadic(entry) /\ Dyadic(lim), roundUp)

(***************************************************************************)
(* What a decimal string denotes.                                          *)
(***************************************************************************)
RECURSIVE FromDigits(_)
FromDigits(ds) ==
    IF ds = <<>> THEN 0
    ELSE 10 * FromDigits(SubSeq(ds, 1, Len(ds) - 1)) + ds[Len(ds)]

StringValue(str) ==
    LET d == Len(str.frac)
        a == str.int * Pow10(d) + FromDigits(str.frac)
    IN  [m |-> IF str.neg THEN -a ELSE a, s |-> d]

(***************************************************************************)
(* Strings are sequences of characters.  Characters compare by UTF-16 code *)
(* unit, as the < and > of JavaScript strings do.                          *)
(***************************************************************************)
Uppers == <<"A", "B", "C", "D", "E", "F", "G", "H", "I", "J", "K", "L", "M",
            "N", "O", "P", "Q", "R", "S", "T", "U", "V", "W", "X", "Y", "Z">>
Lowers == <<"a", "b", "c", "d", "e", "f", "g", "h", "i", "j", "k", "l", "m",
            "n", "o", "p", "q", "r", "s", "t", "u", "v", "w", "x", "y", "z">>
Digits == <<"0", "1", "2", "3", "4", "5", "6", "7", "8", "9">>

IndexIn(seq, c) == CHOOSE i \in 1..Len(seq) : seq[i] = c
IsIn(seq, c) == \E i \in 1..Len(seq) : seq[i] = c

CharCode(c) ==
    IF IsIn(Uppers, c) THEN 64 + IndexIn(Uppers, c)
    ELSE IF IsIn(Lowers, c) THEN 96 + IndexIn(Lowers, c)
    ELSE IF IsIn(Digits, c) THEN 47 + IndexIn(Digits, c)
    ELSE CASE c = " " -> 32
           [] c = "(" -> 40
           [] c = ")" -> 41
           [] c = "-" -> 45
           [] c = "_" -> 95

\* a > b on strings
RECURSIVE StrGreater(_, _)
StrGreater(a, b) ==
    IF a = <<>> THEN FALSE
    ELSE IF b = <<>> THEN TRUE
    ELSE IF Head(a) = Head(b) THEN StrGreater(Tail(a), Tail(b))
    ELSE CharCode(Head(a)) > CharCode(Head(b))

\* String.prototype.toLowerCase
toLowerCase(s) ==
    [i \in 1..Len(s) |-> IF IsIn(Uppers, s[i]) THEN Lowers[IndexIn(Uppers, s[i])]
                         ELSE s[i]]

StartsWith(s, p) == Len(s) >= Len(p) /\ SubSeq(s, 1, Len(p)) = p

\* s.replace(/^<prefix>/, '')
ReplacePrefix(s, p) == IF StartsWith(s, p) THEN SubSeq(s, Len(p) + 1, Len(s)) ELSE s

\* s.split(sep) for a one-character sep: the pieces between the separators,
\* empty pieces included.
RECURSIVE SplitFrom(_, _, _)
SplitFrom(s, sep, piece) ==
    IF s = <<>> THEN <<piece>>
    ELSE IF Head(s) = sep THEN <<piece>> \o SplitFrom(Tail(s), sep, <<>>)
    ELSE SplitFrom(Tail(s), sep, Append(piece, Head(s)))

split(s, sep) == SplitFrom(s, sep, <<>>)

\* array.slice(1)
slice1(a) == IF a = <<>> THEN <<>> ELSE Tail(a)

\* array.join(sep)
RECURSIVE join(_, _)
join(a, sep) ==
    IF a = <<>> THEN <<>>
    ELSE IF Len(a) = 1 THEN a[1]
    ELSE a[1] \o sep \o join(Tail(a), sep)

(***************************************************************************)
(* Array.prototype.sort with the script's comparators                      *)
(*     (a, b) => (a.asset > b.asset ? 1 : -1)     (line 68)                *)
(*     (a, b) => (a.name  > b.name  ? 1 : -1)     (line 133)               *)
(* which answer -1 for equal keys in either order.  The order a sort       *)
(* leaves such elements in is the engine's: the two sorts V8 has shipped   *)
(* are modelled, each as it runs on an array of fewer than 11 elements.    *)
(***************************************************************************)
\* The comparator with its operands exchanged.
compareKeysExchanged(a, b, key) == IF StrGreater(b[key], a[key]) THEN 1 ELSE -1

compareKeys(a, b, key) == IF StrGreater(a[key], b[key]) THEN 1 ELSE -1

InsertAt(a, pos, e) == SubSeq(a, 1, pos) \o <<e>> \o SubSeq(a, pos + 1, Len(a))

Reverse(a) == [i \in 1..Len(a) |-> a[Len(a) + 1 - i]]

\* Insertion sort (V8 before 7.0): the element moves left past every element
\* the comparator puts after it.
RECURSIVE LegacySlot(_, _, _, _)
LegacySlot(a, element, j, key) ==
    IF j >= 1 /\ compareKeys(a[j], element, key) > 0
    THEN LegacySlot(a, element, j - 1, key)
    ELSE j

RECURSIVE InsertionSort(_, _, _)
InsertionSort(a, i, key) ==
    IF i > Len(a) THEN a
    ELSE LET sorted == SubSeq(a, 1, i - 1)
             j == LegacySlot(sorted, a[i], i - 1, key)
         IN  InsertionSort(InsertAt(sorted, j, a[i]) \o SubSeq(a, i + 1, Len(a)),
                           i + 1, key)

\* TimSort (V8 from 7.0) on fewer than 64 elements: the leading run is found
\* (and reversed when descending), the rest is inserted by binary search.
RECURSIVE RunLength(_, _, _, _)
RunLength(a, idx, descending, key) ==
    IF idx > Len(a) THEN idx - 1
    ELSE LET order == compareKeys(a[idx], a[idx - 1], key)
         IN  IF descending /\ order >= 0 THEN idx - 1
             ELSE IF ~descending /\ order < 0 THEN idx - 1
             ELSE RunLength(a, idx + 1, descending, key)

RECURSIVE BinarySlot(_, _, _, _, _)
BinarySlot(a, pivot, left, right, key) ==
    IF left >= right THEN left
    ELSE LET mid == left + ((right - left) \div 2)
         IN  IF compareKeys(pivot, a[mid], key) < 0
             THEN BinarySlot(a, pivot, left, mid, key)
             ELSE BinarySlot(a, pivot, mid + 1, right, key)

RECURSIVE BinaryInsertionSort(_, _, _)
BinaryInsertionSort(a, start, key) ==
    IF start > Len(a) THEN a
    ELSE LET left == BinarySlot(a, a[start], 1, start, key)
         IN  BinaryInsertionSort(
                 InsertAt(SubSeq(a, 1, start - 1), left - 1, a[start])
                     \o SubSeq(a, start + 1, Len(a)),
                 start + 1, key)

TimSort(a, key) ==
    IF Len(a) < 2 THEN a
    ELSE LET descending == compareKeys(a[2], a[1], key) < 0
             run == RunLength(a, 3, descending, key)
             made == IF descending
                     THEN Reverse(SubSeq(a, 1, run)) \o SubSeq(a, run + 1, Len(a))
                     ELSE a
         IN  BinaryInsertionSort(made, run + 1, key)

Engines == {"insertion", "timsort"}

sortBy(a, key, eng) ==
    IF eng = "insertion" THEN InsertionSort(a, 2, key) ELSE TimSort(a, key)

(***************************************************************************)
(* The registry of the synthetix package: getTokens, getSynths, getUsers.  *)
(* A token entry carries symbol, desc (its display name), asset, address,  *)
(* decimals and the optional index, inverted and feed; it carries no name  *)
(* or description of its own, so Object.assign (line 66) overrides neither.*)
(* A synth record carries name, asset and the optional desc, inverted and  *)
(* index.                                                                  *)
(***************************************************************************)
sUSD == <<"s", "U", "S", "D">>
SNX == <<"S", "N", "X">>
MKR == <<"M", "K", "R">>
FTSE100 == <<"F", "T", "S", "E", "1", "0", "0">>
NIKKEI225 == <<"N", "I", "K", "K", "E", "I", "2", "2", "5">>
InvertedPrefix == <<"I", "n", "v", "e", "r", "t", "e", "d", " ">>

Num(m, s) == [m |-> m, s |-> s]

Inversion(e, u, l) == [entryPoint |-> e, upperLimit |-> u, lowerLimit |-> l]

Component(symbol, name, units) == [symbol |-> symbol, name |-> name, units |-> units]

TokenEntry(symbol, asset, dsc, address, inverted, index, feed) ==
    [symbol |-> symbol, asset |-> asset, desc |-> dsc, address |-> address,
     decimals |-> 18, inverted |-> inverted, index |-> index, feed |-> feed]

SynthRecord(name, asset, dsc, inverted, index) ==
    [name |-> name, asset |-> asset, desc |-> dsc, inverted |-> inverted,
     index |-> index]

\* A token and the synth of its symbol, as the registry derives both from one
\* record.
Listed(symbol, asset, dsc, address, inverted, index, feed) ==
    [token |-> TokenEntry(symbol, asset, dsc, address, inverted, index, feed),
     synth |-> Some(SynthRecord(symbol, asset, Some(dsc), inverted, index))]

DefiInversion == Inversion(Num(2757, 0), Num(41355, 1), Num(13785, 1))
MakerInversion == Inversion(Num(530, 0), Num(795, 0), Num(265, 0))
DollarInversion == Inversion(Num(1, 0), Num(15, 1), Num(5, 1))
DefiIndex == <<Component(<<"C", "O", "M", "P">>, <<"C", "o", "m", "p", "o", "u", "n", "d">>, Num(414, 2)),
               Component(<<"R", "E", "N">>, <<"R", "E", "N">>, Num(1343, 0))>>

\* The records a registry of the model is drawn from: the well-formed ones
\* first, then the ones a broken registry could hold.
Catalogue ==
    << [token |-> TokenEntry(SNX, SNX, <<"S", "y", "n", "t", "h", "e", "t", "i", "x">>, "0xC011", Absent, Absent, Absent),
        synth |-> Absent],
       Listed(sUSD, <<"U", "S", "D">>, <<"U", "S", " ", "D", "o", "l", "l", "a", "r", "s">>, "0x57Ab", Absent, Absent, Absent),
       Listed(<<"s", "M", "K", "R">>, MKR, <<"M", "a", "k", "e", "r">>, "0x4140", Absent, Absent, Some("0xF5fff")),
       Listed(<<"i", "M", "K", "R">>, MKR, <<"I", "n", "v", "e", "r", "t", "e", "d", " ", "M", "a", "k", "e", "r">>, "0x0794",
              Some(MakerInversion), Absent, Some("0xF5fff")),
       Listed(<<"s", "D", "E", "F", "I">>, <<"D", "E", "F", "I">>, <<"D", "e", "F", "i", " ", "I", "n", "d", "e", "x">>, "0xe1aF", Absent, Some(DefiIndex),
              Absent),
       Listed(<<"i", "D", "E", "F", "I">>, <<"D", "E", "F", "I">>, <<"I", "n", "v", "e", "r", "t", "e", "d", " ", "D", "e", "F", "i", " ", "I", "n", "d", "e", "x">>, "0x14d1",
              Some(DefiInversion), Some(DefiIndex), Absent),
       Listed(<<"s", "F", "T", "S", "E">>, FTSE100, <<"F", "T", "S", "E", " ", "1", "0", "0", " ", "I", "n", "d", "e", "x">>, "0x23348", Absent, Absent,
              Some("0x16924")),
       \* a synth whose desc is its own name
       Listed(<<"s", "N", "I", "K", "K", "E", "I">>, NIKKEI225, <<"s", "N", "I", "K", "K", "E", "I">>, "0x757de", Absent, Absent,
              Some("0x3f6e0")),
       \* a token whose symbol names no synth
       [token |-> TokenEntry(<<"s", "E", "U", "R">>, <<"E", "U", "R">>, <<"E", "u", "r", "o", "s">>, "0xD71e", Absent, Absent, Absent),
        synth |-> Absent],
       \* sUSD records carrying fields of the other variants, or no desc
       [token |-> TokenEntry(sUSD, <<"U", "S", "D">>, <<"U", "S", " ", "D", "o", "l", "l", "a", "r", "s">>, "0x57Ac", Absent, Absent, Absent),
        synth |-> Some(SynthRecord(sUSD, <<"U", "S", "D">>, Some(<<"I", "n", "v", "e", "r", "t", "e", "d", " ", "U", "S", " ", "D", "o", "l", "l", "a", "r", "s">>),
                                   Some(DollarInversion), Some(DefiIndex)))],
       [token |-> TokenEntry(sUSD, <<"U", "S", "D">>, <<"U", "S", " ", "D", "o", "l", "l", "a", "r", "s">>, "0x57Ad", Absent, Absent, Absent),
        synth |-> Some(SynthRecord(sUSD, <<"U", "S", "D">>, Absent, Absent, Absent))] >>

MaxTokens == 3
MaxRuns == 2

\* The sequences of at most n distinct catalogue records.
RECURSIVE Listings(_)
Listings(n) ==
    IF n = 0 THEN {<<>>}
    ELSE LET shorter == Listings(n - 1)
         IN  shorter \cup
             {Append(l, c) : l \in {s \in shorter : Len(s) = n - 1},
                             c \in 1..Len(Catalogue)} 

Distinct(l) == \A i, j \in 1..Len(l) : i # j => l[i] # l[j]

RegistryOf(l, oracle) ==
    LET present(c) == Has(Catalogue[c].synth)
        withSynth == SelectSeq(l, present)
    IN  [tokens |-> [i \in 1..Len(l) |-> Catalogue[l[i]].token],
         synths |-> [i \in 1..Len(withSynth) |-> Get(Catalogue[withSynth[i]].synth)],
         oracle |-> oracle]

Registries ==
    {RegistryOf(l, o) : l \in {x \in Listings(MaxTokens) : Distinct(x)},
                        o \in {Absent, Some("0xaC1E")}}

(***************************************************************************)
(* desc (lines 19-54).  A description is held as the sentence chosen and   *)
(* the values put into it.  Reading synth.desc of an absent synth, or      *)
(* calling replace on an absent desc, throws a TypeError.                  *)
(***************************************************************************)
Thrown == [threw |-> TRUE]
Returned(v) == [threw |-> FALSE, value |-> v]

descriptionOfPart(part) ==
    [units |-> NumToString(part.units), symbol |-> part.symbol,
     name |-> IF part.name # part.symbol THEN Some(part.name) ELSE Absent]

describeVariant(s, underlying, assetSuffix, roundUp, variant) ==
    CASE variant = "stable" -> [variant |-> "stable"]
      [] variant = "inverted" ->
            LET inv == Get(s.inverted)
            IN  [variant |-> "inverted",
                 underlying |-> underlying,
                 assetSuffix |-> assetSuffix,
                 entryPoint |-> NumToString(inv.entryPoint),
                 upperLimit |-> NumToString(inv.upperLimit),
                 upperAt |-> doRounding(inv.entryPoint, inv.upperLimit, roundUp),
                 lowerLimit |-> NumToString(inv.lowerLimit),
                 lowerAt |-> doRounding(inv.entryPoint, inv.lowerLimit, roundUp),
                 name |-> s.name]
      [] variant = "index" ->
            LET parts == Get(s.index)
            IN  [variant |-> "index",
                 underlying |-> underlying,
                 assetSuffix |-> assetSuffix,
                 parts |-> [i \in 1..Len(parts) |-> descriptionOfPart(parts[i])]]
      [] variant = "plain" ->
            [variant |-> "plain", underlying |-> underlying,
             assetSuffix |-> assetSuffix]

\* The if-chain with the index test before the inversion test.
chosenVariantIndexFirst(s) ==
    IF s.name = sUSD THEN "stable"
    ELSE IF Has(s.index) THEN "index"
    ELSE IF Has(s.inverted) THEN "inverted"
    ELSE "plain"

\* The if-chain with the sUSD test after the inversion and index tests.
chosenVariantStableLast(s) ==
    IF Has(s.inverted) THEN "inverted"
    ELSE IF Has(s.index) THEN "index"
    ELSE IF s.name = sUSD THEN "stable"
    ELSE "plain"

\* The if-chain of lines 22, 24, 42 and 51.
chosenVariant(s) ==
    IF s.name = sUSD THEN "stable"
    ELSE IF Has(s.inverted) THEN "inverted"
    ELSE IF Has(s.index) THEN "index"
    ELSE "plain"

\* desc answering an absent synth with an empty plain sentence.
descOfAnySynth(synth, roundUp) ==
    IF ~Has(synth) THEN
        Returned([variant |-> "plain", underlying |-> <<>>, assetSuffix |-> Absent])
    ELSE IF ~Has(Get(synth).desc) THEN Thrown
    ELSE
    LET s == Get(synth)
        underlying == ReplacePrefix(Get(s.desc), InvertedPrefix)
        assetSuffix == IF s.name # underlying THEN Some(s.asset) ELSE Absent
    IN  Returned(describeVariant(s, underlying, assetSuffix, roundUp, chosenVariant(s)))

\* desc putting the asset suffix behind every underlying.
descSuffixAlways(synth, roundUp) ==
    IF ~Has(synth) THEN Thrown
    ELSE IF ~Has(Get(synth).desc) THEN Thrown
    ELSE
    LET s == Get(synth)
        underlying == ReplacePrefix(Get(s.desc), InvertedPrefix)
    IN  Returned(describeVariant(s, underlying, Some(s.asset), roundUp, chosenVariant(s)))

desc(synth, roundUp) ==
    IF ~Has(synth) THEN Thrown
    ELSE IF ~Has(Get(synth).desc) THEN Thrown
    ELSE
    LET s == Get(synth)
        underlying == ReplacePrefix(Get(s.desc), InvertedPrefix)
        assetSuffix == IF s.name # underlying THEN Some(s.asset) ELSE Absent
    IN  Returned(describeVariant(s, underlying, assetSuffix, roundUp, chosenVariant(s)))

(***************************************************************************)
(* The map over the tokens (lines 58-67): each entry is described and      *)
(* given name and description.  The first throw ends the map.              *)
(***************************************************************************)
\* synths.find(s => s.name === symbol)
RECURSIVE find(_, _)
find(syns, symbol) ==
    IF syns = <<>> THEN Absent
    ELSE IF Head(syns).name = symbol THEN Some(Head(syns))
    ELSE find(Tail(syns), symbol)

describeEntry(entry, syns, roundUp) ==
    IF entry.symbol = SNX THEN Returned([variant |-> "snx"])
    ELSE desc(find(syns, entry.symbol), roundUp)

\* Object.assign({ name: entry.desc, description }, entry)
assignEntry(entry, description) ==
    [name |-> entry.desc, description |-> description, symbol |-> entry.symbol,
     asset |-> entry.asset, desc |-> entry.desc, address |-> entry.address,
     decimals |-> entry.decimals, inverted |-> entry.inverted,
     index |-> entry.index, feed |-> entry.feed]

\* The index of the first entry whose description throws, 0 when none does.
firstThrow(entries, syns, roundUp) ==
    LET bad == {i \in 1..Len(entries) : describeEntry(entries[i], syns, roundUp).threw}
    IN  IF bad = {} THEN 0 ELSE CHOOSE i \in bad : \A j \in bad : i <= j

mapEntries(entries, syns, roundUp) ==
    [i \in 1..Len(entries) |->
        assignEntry(entries[i], describeEntry(entries[i], syns, roundUp).value)]

(***************************************************************************)
(* format (lines 70-75): numbro with thousand separators and a mantissa of *)
(* 5 digits that is left out when it is zero.                              *)
(***************************************************************************)
RECURSIVE ThousandGroups(_)
ThousandGroups(n) ==
    IF n < 1000 THEN <<n>> ELSE Append(ThousandGroups(n \div 1000), n % 1000)

format(x) ==
    LET fixed == toFixed(x, 5, TRUE, TRUE)
    IN  [neg |-> fixed.neg, int |-> ThousandGroups(fixed.int),
         frac |-> IF FromDigits(fixed.frac) = 0 THEN <<>> ELSE fixed.frac]

(***************************************************************************)
(* The blocks of a section (lines 77-122).  A piece of markdown is the     *)
(* sequence of its blocks; '' is the empty sequence.                       *)
(***************************************************************************)
getLinkToAsset(name, asset) ==
    toLowerCase(join(slice1(split(name, " ")), <<"-">>) \o <<"-", "s">> \o asset)

addInverseParameters(inverted, asset, name) ==
    IF ~Has(inverted) THEN <<>>
    ELSE << [kind |-> "inverseOf", label |-> <<"s">> \o asset,
             anchor |-> getLinkToAsset(name, asset)],
            [kind |-> "inverseTable",
             entryPoint |-> format(Get(inverted).entryPoint),
             upperLimit |-> format(Get(inverted).upperLimit),
             lowerLimit |-> format(Get(inverted).lowerLimit)] >>

indexRow(part) ==
    [name |-> part.name, symbol |-> part.symbol, units |-> format(part.units)]

addIndexParametersAlwaysTable(index, inverted, asset, name) ==
    IF ~Has(index) THEN <<>>
    ELSE << [kind |-> "indexOf", label |-> <<"s">> \o asset,
             anchor |-> getLinkToAsset(name, asset)],
            [kind |-> "indexTable",
             rows |-> [i \in 1..Len(Get(index)) |-> indexRow(Get(index)[i])]] >>

addIndexParameters(index, inverted, asset, name) ==
    IF ~Has(index) THEN <<>>
    ELSE LET header == << [kind |-> "indexOf", label |-> <<"s">> \o asset,
                           anchor |-> getLinkToAsset(name, asset)] >>
         IN  IF Has(inverted) THEN header
             ELSE header \o
                  << [kind |-> "indexTable",
                      rows |-> [i \in 1..Len(Get(index)) |-> indexRow(Get(index)[i])]] >>

\* A linkMap whose second entry is keyed by the slug's own ticker.
linkMapKeyedBySlug(asset) ==
    IF asset = FTSE100 THEN Some(<<"f", "t", "s", "e", "-", "g", "b", "p">>)
    ELSE IF asset = <<"N", "2", "2", "5">> THEN Some(<<"n", "2", "2", "5", "-", "j", "p", "y">>)
    ELSE Absent

\* linkMap[asset] (line 116), Absent for a ticker that is no key of it.
linkMap(asset) ==
    IF asset = FTSE100 THEN Some(<<"f", "t", "s", "e", "-", "g", "b", "p">>)
    ELSE IF asset = NIKKEI225 THEN Some(<<"n", "2", "2", "5", "-", "j", "p", "y">>)
    ELSE Absent

\* snx.getUsers({ network, user: 'oracle' }).address throws when the registry
\* knows no oracle user.
addOracleParameters(asset, feed, oracle) ==
    IF ~Has(oracle) THEN Thrown
    ELSE IF ~Has(feed) THEN
        Returned(<< [kind |-> "centralized", oracle |-> Get(oracle)] >>)
    ELSE LET symbolLink == IF Has(linkMap(asset)) THEN Get(linkMap(asset))
                           ELSE toLowerCase(asset) \o <<"-", "u", "s", "d">>
         IN  Returned(<< [kind |-> "decentralized", symbolLink |-> symbolLink,
                          feed |-> Get(feed)] >>)

\* A section whose warning is kept from the inverted tokens.
sectionSuspendedUnlessInverted(t, oracle) ==
    << [kind |-> "title", name |-> t.name, symbol |-> t.symbol] >>
    \o (IF t.asset = MKR /\ ~Has(t.inverted) THEN << [kind |-> "suspended"] >> ELSE <<>>)
    \o << [kind |-> "contract", address |-> t.address],
          [kind |-> "decimals", decimals |-> t.decimals],
          [kind |-> "price", symbol |-> t.symbol] >>
    \o addOracleParameters(t.asset, t.feed, oracle).value
    \o addInverseParameters(t.inverted, t.asset, t.name)
    \o addIndexParameters(t.index, t.inverted, t.asset, t.name)
    \o << [kind |-> "description", description |-> t.description] >>

\* One section of the document (lines 135-147).
section(t, oracle) ==
    << [kind |-> "title", name |-> t.name, symbol |-> t.symbol] >>
    \o (IF t.asset = MKR THEN << [kind |-> "suspended"] >> ELSE <<>>)
    \o << [kind |-> "contract", address |-> t.address],
          [kind |-> "decimals", decimals |-> t.decimals],
          [kind |-> "price", symbol |-> t.symbol] >>
    \o addOracleParameters(t.asset, t.feed, oracle).value
    \o addInverseParameters(t.inverted, t.asset, t.name)
    \o addIndexParameters(t.index, t.inverted, t.asset, t.name)
    \o << [kind |-> "description", description |-> t.description] >>

sectionThrows(t, oracle) == addOracleParameters(t.asset, t.feed, oracle).threw

\* The template literal (lines 124-151): the sections in the order of the
\* sorted tokens, joined under the fixed head of the document.
documentOf(sorted, oracle) ==
    [head |-> "Token List",
     sections |-> [i \in 1..Len(sorted) |-> section(sorted[i], oracle)]]

(***************************************************************************)
(* The script, statement by statement.  pc names the statement about to    *)
(* run: "synths" (line 9), "tokens" (lines 58-68), "content" (lines        *)
(* 124-151), "write" (line 152); "done" and "failed" are the two ways the  *)
(* process ends.  An exception is caught nowhere: it ends the process.     *)
(***************************************************************************)
OldContent == [head |-> "an earlier list", sections |-> <<>>]

NothingThrown == [at |-> "", token |-> 0]

\* fs.writeFileSync(path, content): the file holds content and nothing else.
writtenAfterOld(old, doc) == [head |-> doc.head, sections |-> old.sections \o doc.sections]

written(old, doc) == doc

Idle ==
    /\ registry = RegistryOf(<<>>, Absent)
    /\ engine = "insertion"
    /\ pc = "idle"
    /\ runs = 0
    /\ synths = <<>>
    /\ tokens = <<>>
    /\ content = Absent
    /\ file = OldContent
    /\ previous = OldContent
    /\ writes = 0
    /\ thrown = NothingThrown

Init ==
    /\ entryPoint = Num(0, 0)
    /\ limit = Num(0, 0)
    /\ result = Absent
    /\ registry \in Registries
    /\ engine \in Engines
    /\ pc = "synths"
    /\ runs = 1
    /\ synths = <<>>
    /\ tokens = <<>>
    /\ content = Absent
    /\ file = OldContent
    /\ previous = OldContent
    /\ writes = 0
    /\ thrown = NothingThrown

\* const synths = snx.getSynths({ network })
LoadSynths ==
    /\ pc = "synths"
    /\ synths' = registry.synths
    /\ pc' = "tokens"
    /\ UNCHANGED <<registry, engine, runs, tokens, content, file, previous, writes,
                   thrown>>

\* ... or the package cannot read its deployment files and throws.
LoadSynthsFails ==
    /\ pc = "synths"
    /\ pc' = "failed"
    /\ thrown' = [at |-> "getSynths", token |-> 0]
    /\ UNCHANGED <<registry, engine, runs, synths, tokens, content, file, previous,
                   writes>>

\* const tokens = snx.getTokens({ network }).map(...).sort(by asset)
BuildTokens ==
    /\ pc = "tokens"
    /\ \E roundUp \in BOOLEAN :
          /\ firstThrow(registry.tokens, synths, roundUp) = 0
          /\ tokens' = sortBy(mapEntries(registry.tokens, synths, roundUp), "asset",
                              engine)
    /\ pc' = "content"
    /\ UNCHANGED <<registry, engine, runs, synths, content, file, previous, writes,
                   thrown>>

\* A failing map after the file was opened for writing and so emptied.
BuildTokensFailsFileOpened ==
    /\ pc = "tokens"
    /\ thrown' = [at |-> "getTokens", token |-> 0]
    /\ pc' = "failed"
    /\ file' = [head |-> "", sections |-> <<>>]
    /\ UNCHANGED <<registry, engine, runs, synths, tokens, content, previous, writes>>

\* ... or getTokens throws, or desc throws for one of the entries.
BuildTokensFails ==
    /\ pc = "tokens"
    /\ \/ thrown' = [at |-> "getTokens", token |-> 0]
       \/ \E roundUp \in BOOLEAN :
             /\ firstThrow(registry.tokens, synths, roundUp) # 0
             /\ thrown' = [at |-> "desc",
                           token |-> firstThrow(registry.tokens, synths, roundUp)]
    /\ pc' = "failed"
    /\ UNCHANGED <<registry, engine, runs, synths, tokens, content, file, previous,
                   writes>>

\* const content = `...${tokens.sort(by name).map(section).join('\n\n')}...`
\* The sort is in place: tokens is left in the order of the document.
AssembleContent ==
    /\ pc = "content"
    /\ LET sorted == sortBy(tokens, "name", engine)
       IN  /\ \A i \in 1..Len(sorted) : ~sectionThrows(sorted[i], registry.oracle)
           /\ tokens' = sorted
           /\ content' = Some(documentOf(sorted, registry.oracle))
    /\ pc' = "write"
    /\ UNCHANGED <<registry, engine, runs, synths, file, previous, writes, thrown>>

\* ... or the oracle user is looked up in vain for the first section.
AssembleContentFails ==
    /\ pc = "content"
    /\ LET sorted == sortBy(tokens, "name", engine)
       IN  /\ \E i \in 1..Len(sorted) : sectionThrows(sorted[i], registry.oracle)
           /\ tokens' = sorted
    /\ thrown' = [at |-> "getUsers", token |-> 1]
    /\ pc' = "failed"
    /\ UNCHANGED <<registry, engine, runs, synths, content, file, previous, writes>>

\* fs.writeFileSync(<content/tokens/list.md>, content)
WriteFile ==
    /\ pc = "write"
    /\ file' = written(file, Get(content))
    /\ writes' = writes + 1
    /\ pc' = "done"
    /\ UNCHANGED <<registry, engine, runs, synths, tokens, content, previous, thrown>>

\* The build is run again on the same registry; the file is what the earlier
\* run left.
Rerun ==
    /\ pc \in {"done", "failed"}
    /\ runs < MaxRuns
    /\ runs' = runs + 1
    /\ pc' = "synths"
    /\ synths' = <<>>
    /\ tokens' = <<>>
    /\ content' = Absent
    /\ previous' = file
    /\ writes' = 0
    /\ thrown' = NothingThrown
    /\ UNCHANGED <<registry, engine, file>>

Next ==
    \/ (LoadSynths /\ UNCHANGED roundVars)
    \/ (LoadSynthsFails /\ UNCHANGED roundVars)
    \/ (BuildTokens /\ UNCHANGED roundVars)
    \/ (BuildTokensFails /\ UNCHANGED roundVars)
    \/ (AssembleContent /\ UNCHANGED roundVars)
    \/ (AssembleContentFails /\ UNCHANGED roundVars)
    \/ (WriteFile /\ UNCHANGED roundVars)
    \/ (Rerun /\ UNCHANGED roundVars)

Spec == Init /\ [][Next]_vars

(***************************************************************************)
(* SpecRound: doRounding on every pair of bounded literals.                *)
(***************************************************************************)
EntryLiterals == [m : 0..MaxEntryMant, s : 0..MaxScale]
LimitLiterals == [m : 0..MaxLimitMant, s : 0..MaxScale]

InitRound ==
    /\ entryPoint \in EntryLiterals
    /\ limit \in LimitLiterals
    /\ result = Absent
    /\ Idle

Round ==
    /\ result = Absent
    /\ \E roundUp \in BOOLEAN :
          result' = Some(doRounding(ParseNumber(entryPoint), ParseNumber(limit),
                                    roundUp))
    /\ UNCHANGED <<entryPoint, limit>>
    /\ UNCHANGED buildVars

NextRound == Round

SpecRound == InitRound /\ [][NextRound]_vars

(***************************************************************************)
(* Claims about doRounding, checked under SpecRound.                       *)
(***************************************************************************)
\* 2 * entryPoint - limit of the two literals, as digits m at scale s.
MirrorAtScale(e, l) ==
    LET S == MaxOf(e.s, l.s)
    IN  [m |-> 2 * e.m * Pow10(S - e.s) - l.m * Pow10(S - l.s), s |-> S]

SameValue(x, y) == StripZeros(x.m, x.s) = StripZeros(y.m, y.s)

\* The fractional digits a Number prints with.
PrintedDigits(lit) == ParseNumber(lit).s

Rounded == Has(result)

DenotesMirror == SameValue(StringValue(Get(result)), MirrorAtScale(entryPoint, limit))

\* The string is the mirror value rounded to d digits: it has d digits and
\* lies within half a unit of the d-th digit of the mirror value.
DenotesRoundedMirror(d) ==
    LET exact == MirrorAtScale(entryPoint, limit)
        got == StringValue(Get(result))
    IN  /\ got.s = d
        /\ d <= exact.s
        /\ 2 * Abs(got.m * Pow10(exact.s - d) - exact.m) <= Pow10(exact.s - d)

\* C1 as stated: for every entryPoint and limit the string doRounding returns
\* denotes exactly 2 * entryPoint - limit, also when entryPoint has more
\* fractional digits than limit.
C1_AlwaysExact == Rounded => DenotesMirror

\* C1 as amended: the string denotes exactly 2 * entryPoint - limit when
\* entryPoint has no more fractional digits than limit, and otherwise denotes
\* that value rounded to the fractional digits of limit.
C1_ExactWithinLimitWidth ==
    Rounded =>
        IF PrintedDigits(entryPoint) <= PrintedDigits(limit) THEN DenotesMirror
        ELSE DenotesRoundedMirror(PrintedDigits(limit))

\* entryPoint 4.5 and limit 0.15 give "8.85".
C1_Witness ==
    /\ entryPoint = Num(45, 1)
    /\ limit = Num(15, 2)
    /\ result = Some([neg |-> FALSE, int |-> 8, frac |-> <<8, 5>>])

\* C2 as stated: the string has as many fractional digits as limit has as
\* supplied, so that a limit written 150.0 yields one fractional digit.
C2_WidthAsSupplied == Rounded => Len(Get(result).frac) = limit.s

\* C2 as amended: the string has as many fractional digits as limit.toString()
\* has, which are the digits of limit as supplied without its trailing
\* zeros: none for an integer (also one written 150.0), padded with zeros or
\* rounded to that width otherwise.
C2_WidthOfPrintedLimit == Rounded => Len(Get(result).frac) = PrintedDigits(limit)

\* entryPoint 0.05 and limit 0.10 give "0.0": one digit, the 0.10 printing as
\* 0.1, and the value 0 padded to it.
C2_Witness ==
    /\ entryPoint = Num(5, 2)
    /\ limit = Num(10, 2)
    /\ Rounded
    /\ Get(result).frac = <<0>>

(***************************************************************************)
(* Claims about the build, checked under Spec.                             *)
(***************************************************************************)
\* getTokens has answered: the map over its entries has run, to its end or
\* to a throw of desc.
TokensReturned ==
    \/ pc \in {"content", "write", "done"}
    \/ pc = "failed" /\ thrown.at \in {"desc", "getUsers"}

\* The tokens statement has run to its end.
TokensBuilt ==
    \/ pc \in {"content", "write", "done"}
    \/ pc = "failed" /\ thrown.at = "getUsers"

NoSynthFor(entry) == ~Has(find(registry.synths, entry.symbol))

AbortedInDesc ==
    /\ pc = "failed"
    /\ thrown.at = "desc"
    /\ writes = 0
    /\ file = previous

\* C3 as stated: whenever the registry returns a token whose symbol is the
\* name of no synth, the build aborts in desc and the file is not written.
C3_AnyUnmatchedTokenAborts ==
    (TokensReturned /\ \E i \in 1..Len(registry.tokens) : NoSynthFor(registry.tokens[i]))
        => AbortedInDesc

\* C3 as amended: whenever the registry returns a token other than SNX whose
\* symbol is the name of no synth, the build aborts in desc and the file is
\* not written.  (SNX is described without its synth being looked at.)
C3_UnmatchedTokenButSNXAborts ==
    (TokensReturned /\ \E i \in 1..Len(registry.tokens) :
                          /\ registry.tokens[i].symbol # SNX
                          /\ NoSynthFor(registry.tokens[i]))
        => AbortedInDesc

\* The build has aborted in desc at a token that has no synth.
C3_Witness ==
    /\ AbortedInDesc
    /\ registry.tokens[thrown.token].symbol # SNX
    /\ NoSynthFor(registry.tokens[thrown.token])
    /\ Len(registry.tokens) > 1

\* A document holding a finished section for each token of the registry.
WholeDocument(doc) ==
    /\ doc.head = "Token List"
    /\ Len(doc.sections) = Len(registry.tokens)
    /\ \A i \in 1..Len(registry.tokens) :
          \E j \in 1..Len(doc.sections) :
             doc.sections[j][1].symbol = registry.tokens[i].symbol
    /\ \A j \in 1..Len(doc.sections) :
          /\ doc.sections[j][1].kind = "title"
          /\ doc.sections[j][Len(doc.sections[j])].kind = "description"

\* C4: a run writes the file at most once, and only the whole document, as
\* its last step; until then, and in a run that fails, the file holds what it
\* held before the run; the file never holds part of a document.
C4_WrittenOnceAndWhole ==
    /\ writes <= 1
    /\ writes = 1 => pc = "done" /\ Has(content) /\ file = Get(content)
    /\ pc # "done" => writes = 0 /\ file = previous
    /\ pc = "done" => writes = 1 /\ WholeDocument(file)
    /\ file # OldContent => WholeDocument(file)

\* A second run fails with the registry's load, and the file still holds the
\* three sections the first run wrote.
C4_Witness ==
    /\ runs = 2
    /\ pc = "failed"
    /\ thrown.at = "getSynths"
    /\ file # OldContent
    /\ file = previous
    /\ Len(file.sections) = 3

SectionName(sec) == sec[1].name

DistinctNames ==
    \A i, j \in 1..Len(registry.tokens) :
       i # j => registry.tokens[i].desc # registry.tokens[j].desc

\* C6: no section follows a section of strictly greater display name; when
\* the display names are pairwise distinct, the sections are those of the
\* registry's tokens in strictly ascending order of display name, which is
\* one order whatever order the registry gave them in.
C6_SectionsAscendByName ==
    Has(content) =>
        LET secs == Get(content).sections
        IN  /\ \A i, j \in 1..Len(secs) :
                  i < j => ~StrGreater(SectionName(secs[i]), SectionName(secs[j]))
            /\ DistinctNames =>
                  /\ WholeDocument(Get(content))
                  /\ \A i, j \in 1..Len(secs) :
                        i < j => StrGreater(SectionName(secs[j]), SectionName(secs[i]))

\* Three tokens the registry gave in descending order of display name, and in
\* an order of assets that is not that of the names, are in the document.
C6_Witness ==
    /\ Has(content)
    /\ Len(registry.tokens) = 3
    /\ StrGreater(registry.tokens[1].desc, registry.tokens[2].desc)
    /\ StrGreater(registry.tokens[2].desc, registry.tokens[3].desc)
    /\ StrGreater(registry.tokens[3].asset, registry.tokens[2].asset)

SynthOf(t) == Get(find(synths, t.symbol))

\* C7: the description of every synth is of exactly the variant its record
\* selects: stable iff its name is sUSD; inverted iff not so and it has
\* inversion parameters (with or without an index composition); index iff
\* neither and it has an index composition; plain iff none of these.
C7_VariantByPriority ==
    TokensBuilt =>
        \A i \in 1..Len(tokens) :
           tokens[i].symbol # SNX =>
              LET s == SynthOf(tokens[i])
                  v == tokens[i].description.variant
              IN  /\ v \in {"stable", "inverted", "index", "plain"}
                  /\ v = "stable" <=> s.name = sUSD
                  /\ v = "inverted" <=> s.name # sUSD /\ Has(s.inverted)
                  /\ v = "index" <=>
                        s.name # sUSD /\ ~Has(s.inverted) /\ Has(s.index)
                  /\ v = "plain" <=>
                        s.name # sUSD /\ ~Has(s.inverted) /\ ~Has(s.index)

\* A synth with inversion parameters and an index composition has been given
\* the inverted sentence.
C7_Witness ==
    /\ TokensBuilt
    /\ \E i \in 1..Len(tokens) :
          /\ tokens[i].symbol # SNX
          /\ SynthOf(tokens[i]).name # sUSD
          /\ Has(SynthOf(tokens[i]).inverted)
          /\ Has(SynthOf(tokens[i]).index)
          /\ tokens[i].description.variant = "inverted"

StableSentence == [variant |-> "stable"]

EverySUSDBuiltIsStable ==
    TokensBuilt =>
        \A i \in 1..Len(tokens) :
           tokens[i].symbol = sUSD => tokens[i].description = StableSentence

\* desc has thrown for a token whose synth is named sUSD.
ThrewForSUSD ==
    /\ pc = "failed"
    /\ thrown.at = "desc"
    /\ registry.tokens[thrown.token].symbol = sUSD
    /\ Has(find(synths, sUSD))

\* C8 as stated: desc returns the constant-value sentence for every synth
\* named sUSD, whatever its other fields, its desc absent included.
C8_StableWhateverTheFields == EverySUSDBuiltIsStable /\ ~ThrewForSUSD

\* C8 as amended: desc returns the constant-value sentence for every synth
\* named sUSD that has a desc, whatever that desc and its other fields are;
\* it throws for one that has no desc.
C8_StableWhenDescribed ==
    /\ EverySUSDBuiltIsStable
    /\ ThrewForSUSD => ~Has(Get(find(synths, sUSD)).desc)

\* An sUSD record with inversion parameters, an index composition and a desc
\* of its own has been given the constant-value sentence.
C8_Witness ==
    /\ TokensBuilt
    /\ \E i \in 1..Len(tokens) :
          /\ tokens[i].symbol = sUSD
          /\ Has(SynthOf(tokens[i]).inverted)
          /\ Has(SynthOf(tokens[i]).index)
          /\ tokens[i].description = StableSentence

(***************************************************************************)
(* The anchor the markdown renderer gives a heading: the heading without   *)
(* its punctuation, lower-cased, its words joined by hyphens.              *)
(***************************************************************************)
IsWordChar(c) == IsIn(Uppers, c) \/ IsIn(Lowers, c) \/ IsIn(Digits, c) \/ c = "_"

IsSeparator(c) == c = " " \/ c = "-"

RECURSIVE JoinWords(_, _)
JoinWords(s, pending) ==
    IF s = <<>> THEN <<>>
    ELSE IF IsSeparator(Head(s)) THEN JoinWords(Tail(s), TRUE)
    ELSE (IF pending THEN <<"-">> ELSE <<>>) \o <<Head(s)>> \o JoinWords(Tail(s), FALSE)

Slugify(heading) ==
    LET kept == SelectSeq(heading, LAMBDA c : IsWordChar(c) \/ IsSeparator(c))
    IN  JoinWords(toLowerCase(kept), FALSE)

\* The text of a section's heading: `## ${name} (${symbol})`
HeadingText(title) == title.name \o <<" ", "(">> \o title.symbol \o <<")">>

LinkBlocks(sec) ==
    {k \in 1..Len(sec) : sec[k].kind \in {"inverseOf", "indexOf"}}

\* C9: the anchor of every 'Inverse of' and 'Index of' link is the anchor of
\* the heading of the section of the token with symbol s<asset>, whenever the
\* document has that section.
C9_LinksResolve ==
    Has(content) =>
        LET secs == Get(content).sections
        IN  \A i, j \in 1..Len(secs) :
               \A k \in LinkBlocks(secs[i]) :
                  secs[j][1].symbol = secs[i][k].label =>
                     secs[i][k].anchor = Slugify(HeadingText(secs[j][1]))

HasBlock(sec, kind) == \E k \in 1..Len(sec) : sec[k].kind = kind

BlockOf(sec, kind) == sec[CHOOSE k \in 1..Len(sec) : sec[k].kind = kind]

\* C10: a section has the 'Index of' line iff its token has an index
\* composition, and the Token/Symbol/Units table, a row per component in the
\* order of the composition, iff the token has an index composition and no
\* inversion parameters; with both, the section has the inversion table and
\* the 'Index of' line and no index table.
C10_IndexBlock ==
    Has(content) =>
        LET secs == Get(content).sections
        IN  \A i \in 1..Len(secs) :
               LET t == tokens[i]
                   sec == secs[i]
               IN  /\ sec[1].symbol = t.symbol
                   /\ HasBlock(sec, "indexOf") <=> Has(t.index)
                   /\ HasBlock(sec, "indexTable") <=> Has(t.index) /\ ~Has(t.inverted)
                   /\ HasBlock(sec, "indexTable") =>
                         LET rows == BlockOf(sec, "indexTable").rows
                             parts == Get(t.index)
                         IN  /\ Len(rows) = Len(parts)
                             /\ \A r \in 1..Len(rows) :
                                   /\ rows[r].name = parts[r].name
                                   /\ rows[r].symbol = parts[r].symbol
                                   /\ rows[r].units = format(parts[r].units)
                   /\ (Has(t.index) /\ Has(t.inverted)) =>
                         /\ HasBlock(sec, "inverseTable")
                         /\ HasBlock(sec, "indexOf")
                         /\ ~HasBlock(sec, "indexTable")

\* The document has the section of an inverted index token, the section of an
\* index token that is not inverted and a section of a token with no index.
C10_Witness ==
    /\ Has(content)
    /\ \E i, j, k \in 1..Len(tokens) :
          /\ Has(tokens[i].index) /\ Has(tokens[i].inverted)
          /\ Has(tokens[j].index) /\ ~Has(tokens[j].inverted)
          /\ ~Has(tokens[k].index)
          /\ HasBlock(Get(content).sections[j], "indexTable")
          /\ ~HasBlock(Get(content).sections[i], "indexTable")

\* The slug the feed browser is addressed by for an asset ticker.
FeedSlug(asset) ==
    IF asset = FTSE100 THEN <<"f", "t", "s", "e", "-", "g", "b", "p">>
    ELSE IF asset = NIKKEI225 THEN <<"n", "2", "2", "5", "-", "j", "p", "y">>
    ELSE toLowerCase(asset) \o <<"-", "u", "s", "d">>

\* C11: a section holds the centralized block exactly when its token has no
\* feed address; a token with a feed address gets the decentralized block,
\* and no centralized one, with its feed address and with the slug ftse-gbp
\* for asset FTSE100, n225-jpy for asset NIKKEI225 and the lower-cased asset
\* followed by -usd for every other asset.
C11_OracleBlockByFeed ==
    Has(content) =>
        LET secs == Get(content).sections
        IN  \A i \in 1..Len(secs) :
               LET t == tokens[i]
                   sec == secs[i]
               IN  /\ sec[1].symbol = t.symbol
                   /\ HasBlock(sec, "centralized") <=> ~Has(t.feed)
                   /\ HasBlock(sec, "decentralized") <=> Has(t.feed)
                   /\ Has(t.feed) =>
                         /\ BlockOf(sec, "decentralized").symbolLink = FeedSlug(t.asset)
                         /\ BlockOf(sec, "decentralized").feed = Get(t.feed)

\* The document has a section for a token without feed and the sections of
\* two tokens with a feed, one of asset NIKKEI225 and one of an asset that
\* is no key of the link map.
C11_Witness ==
    /\ Has(content)
    /\ \E i, j, k \in 1..Len(tokens) :
          LET secs == Get(content).sections
          IN  /\ ~Has(tokens[i].feed)
              /\ HasBlock(secs[i], "centralized")
              /\ tokens[j].asset = NIKKEI225
              /\ BlockOf(secs[j], "decentralized").symbolLink = <<"n", "2", "2", "5", "-", "j", "p", "y">>
              /\ tokens[k].asset = MKR
              /\ BlockOf(secs[k], "decentralized").symbolLink = <<"m", "k", "r", "-", "u", "s", "d">>

\* C12: in the description of every synth given the inverted, the index or
\* the plain sentence, the underlying is the synth's desc with one leading
\* "Inverted " removed, and the asset suffix follows it exactly when the
\* synth's name differs from that underlying; the suffix holds the synth's
\* asset, and with equal name and underlying there is no suffix.
C12_SuffixIffNameDiffers ==
    TokensBuilt =>
        \A i \in 1..Len(tokens) :
           tokens[i].symbol # SNX =>
              LET s == SynthOf(tokens[i])
                  d == tokens[i].description
                  given == Get(s.desc)
                  stripped == IF StartsWith(given, InvertedPrefix)
                              THEN SubSeq(given, Len(InvertedPrefix) + 1, Len(given))
                              ELSE given
              IN  d.variant \in {"inverted", "index", "plain"} =>
                     /\ d.underlying = stripped
                     /\ Has(d.assetSuffix) <=> s.name # stripped
                     /\ Has(d.assetSuffix) => Get(d.assetSuffix) = s.asset

\* The tokens built hold a synth whose desc is its name, described without
\* suffix, and a synth whose desc behind the prefix is not its name,
\* described with the suffix of its asset.
C12_Witness ==
    /\ TokensBuilt
    /\ \E i, j \in 1..Len(tokens) :
          /\ tokens[i].symbol # SNX /\ tokens[j].symbol # SNX
          /\ tokens[i].description.variant = "plain"
          /\ tokens[i].description.underlying = SynthOf(tokens[i]).name
          /\ ~Has(tokens[i].description.assetSuffix)
          /\ tokens[j].description.variant = "inverted"
          /\ StartsWith(Get(SynthOf(tokens[j]).desc), InvertedPrefix)
          /\ tokens[j].description.underlying # SynthOf(tokens[j]).name
          /\ tokens[j].description.assetSuffix = Some(SynthOf(tokens[j]).asset)

\* C13: a section holds the Suspended warning exactly when its token's asset
\* is MKR, whether the token is inverted or not; the warning is held once,
\* directly after the title and directly before the Contract line, and a
\* section without it has the Contract line directly after the title.
C13_SuspendedIffMKR ==
    Has(content) =>
        LET secs == Get(content).sections
        IN  \A i \in 1..Len(secs) :
               LET t == tokens[i]
                   sec == secs[i]
                   warnings == {k \in 1..Len(sec) : sec[k].kind = "suspended"}
               IN  /\ sec[1].kind = "title"
                   /\ sec[1].symbol = t.symbol
                   /\ warnings # {} <=> t.asset = MKR
                   /\ t.asset = MKR =>
                         /\ warnings = {2}
                         /\ sec[3].kind = "contract"
                   /\ t.asset # MKR => sec[2].kind = "contract"

\* The document has the sections of an inverted token of asset MKR and of a
\* token of asset MKR that is not inverted, both with the warning second,
\* and a section of a token of another asset without it.
C13_Witness ==
    /\ Has(content)
    /\ \E i, j, k \in 1..Len(tokens) :
          LET secs == Get(content).sections
          IN  /\ tokens[i].asset = MKR /\ Has(tokens[i].inverted)
              /\ secs[i][2].kind = "suspended"
              /\ tokens[j].asset = MKR /\ ~Has(tokens[j].inverted)
              /\ secs[j][2].kind = "suspended"
              /\ tokens[k].asset # MKR
              /\ ~HasBlock(secs[k], "suspended")

=============================================================================
